---- MODULE Spec2Model ----
(***************************************************************************)
(* File Integrity Checker (src/main.js): SHA-256 baselines kept in one     *)
(* localStorage entry, with the register, verify, quick-verify, delete,    *)
(* clear and export handlers of the page.                                  *)
(***************************************************************************)
EXTENDS Integers, Sequences, FiniteSets, Bags, TLC

VARIABLES
    store,      \* the localStorage entry under STORE_KEY
    table,      \* recordsBody.innerHTML as rendered rows
    regResult,  \* the register status element
    verResult,  \* the verify status element
    pending,    \* bag of asynchronous handlers suspended at an await / open pickers
    now,        \* Date.now() in milliseconds
    uuidNext,   \* number of UUIDs crypto.randomUUID has issued
    hasUUID,    \* whether crypto.randomUUID exists in this browser
    last        \* the last call on the store (load, add, remove, clear) and how it ended

vars == <<store, table, regResult, verResult, pending, now, uuidNext, hasUUID, last>>

----------------------------------------------------------------------------
(* Bounds of the model *)

MaxRecords == 2     \* records the store may hold, and UUIDs issued, before Register is no longer tried
MaxPending == 2     \* handlers in flight at once
MaxTime == 1        \* last millisecond of the clock

\* the values Date.now() + Math.random() can take within one millisecond,
\* as the offsets Math.random() adds
RandDraws == {0, 1}

(* SHA-256 yields 32 bytes *)
DigestBytes == 32

----------------------------------------------------------------------------
(* Files the user can pick: name (as characters), size, lastModified and  *)
(* the content that file.arrayBuffer() yields.                            *)

NameA == <<"a">>
NameB == <<"<", "b">>

FileA0 == [name |-> NameA, size |-> 0,    lastModified |-> 7, content |-> 0]
FileA1 == [name |-> NameA, size |-> 1500, lastModified |-> 8, content |-> 1]
FileB0 == [name |-> NameB, size |-> 0,    lastModified |-> 9, content |-> 0]

Files == {FileA0, FileA1, FileB0}

\* a later copy of FileA0: the same name and content, another size and date
FileA2 == [name |-> NameA, size |-> 2048, lastModified |-> 10, content |-> 0]

NoFile == [name |-> <<>>, size |-> -1, lastModified |-> -1, content |-> -1]

----------------------------------------------------------------------------
(* toHex and sha256OfFile *)

HexDigits == <<"0","1","2","3","4","5","6","7","8","9","a","b","c","d","e","f">>

\* Number.prototype.toString(16) of a byte
toString16(b) ==
    IF b < 16 THEN <<HexDigits[b + 1]>>
    ELSE <<HexDigits[(b \div 16) + 1], HexDigits[(b % 16) + 1]>>

\* no padding: 0x0a comes out as "a"
padStart2Off(s) == s

\* String.prototype.padStart(2, "0")
padStart2(s) == IF Len(s) < 2 THEN <<"0">> \o s ELSE s

RECURSIVE hexJoin(_, _)
hexJoin(bytes, i) ==
    IF i > Len(bytes) THEN <<>>
    ELSE padStart2(toString16(bytes[i])) \o hexJoin(bytes, i + 1)

toHex(buffer) == hexJoin(buffer, 1)

\* crypto.subtle.digest("SHA-256", buf): a fixed function of the content to 32 bytes
subtleDigest(content) == [i \in 1..DigestBytes |-> (content * 131 + i * 7) % 256]

sha256OfFile(file) == toHex(subtleDigest(file.content))

\* sha256OfFile of every file the user can pick, computed once
digestOf == [f \in Files \cup {FileA2} |-> sha256OfFile(f)]

----------------------------------------------------------------------------
(* The persisted entry, loadRecords and saveRecords.                       *)
(* An entry is the raw string under STORE_KEY, by what JSON.parse makes of *)
(* it: absent (getItem gives null), "" (falsy), text that does not parse,  *)
(* the JSON texts null / an object / a non-empty string, or a JSON array.  *)

Entry(k, recs) == [kind |-> k, recs |-> recs]

Absent == Entry("absent", <<>>)

\* a JavaScript value that loadRecords can return
Arr(recs) == [kind |-> "array", recs |-> recs]

loadRecords(entry) ==
    IF entry.kind \in {"absent", "empty"} THEN Arr(<<>>)     \* raw ? ... : []
    ELSE IF entry.kind = "garbage" THEN Arr(<<>>)            \* JSON.parse throws: catch
    ELSE [kind |-> entry.kind, recs |-> entry.recs]          \* JSON.parse(raw)

\* JSON.stringify(list), as the entry setItem stores
stringify(list) == Entry(list.kind, list.recs)

\* localStorage.setItem: writeOk = FALSE is the medium refusing the write
saveRecords(entry, list, writeOk) ==
    IF writeOk THEN [err |-> "none", store |-> stringify(list)]
    ELSE [err |-> "QuotaExceededError", store |-> entry]

\* list.length: throws on null, undefined on a non-array object
lengthOf(list) ==
    CASE list.kind = "array" -> [err |-> "none", truthy |-> Len(list.recs) > 0]
      [] list.kind = "string" -> [err |-> "none", truthy |-> TRUE]
      [] list.kind = "object" -> [err |-> "none", truthy |-> FALSE]
      [] OTHER -> [err |-> "TypeError", truthy |-> FALSE]

\* list.push / list.filter / list.find / list.map exist only on arrays
isArray(list) == list.kind = "array"

----------------------------------------------------------------------------
(* renderRecords and escapeHtml *)

escapeChar(c) ==
    CASE c = "&" -> <<"&", "a", "m", "p", ";">>
      [] c = "<" -> <<"&", "l", "t", ";">>
      [] c = ">" -> <<"&", "g", "t", ";">>
      [] c = "\"" -> <<"&", "q", "u", "o", "t", ";">>
      [] OTHER -> <<c>>

RECURSIVE escapeFrom(_, _)
escapeFrom(s, i) ==
    IF i > Len(s) THEN <<>> ELSE escapeChar(s[i]) \o escapeFrom(s, i + 1)

escapeHtml(s) == escapeFrom(s, 1)

\* (r.size / 1024).toFixed(2), in hundredths of a KB
sizeKb(size) == (size * 200 + 1024) \div 2048

Row(r, i) ==
    [n |-> i, name |-> escapeHtml(r.name), sizeKb |-> sizeKb(r.size),
     when |-> r.savedAt, hash |-> r.hash, id |-> r.id]

Placeholder == [kind |-> "placeholder", rows |-> <<>>]
Unrendered == [kind |-> "unrendered", rows |-> <<>>]
Rows(recs) == [kind |-> "rows", rows |-> [i \in 1..Len(recs) |-> Row(recs[i], i)]]

\* the table after renderRecords() and the error it throws, if any
renderRecords(entry, old) ==
    LET list == loadRecords(entry)
        len == lengthOf(list)
    IN  IF len.err # "none" THEN [err |-> len.err, table |-> old]
        ELSE IF ~len.truthy THEN [err |-> "none", table |-> Placeholder]
        ELSE IF ~isArray(list) THEN [err |-> "TypeError", table |-> old]
        ELSE [err |-> "none", table |-> Rows(list.recs)]

----------------------------------------------------------------------------
(* addRecord, deleteRecord, clearAllRecords *)

Record(id, f, hash, t) ==
    [id |-> id, name |-> f.name, size |-> f.size, lastModified |-> f.lastModified,
     hash |-> hash, savedAt |-> t]

\* ids: String(Date.now() + Math.random()) is the millisecond plus one of the
\* offsets of RandDraws; UUIDs are numbered above every such value
UuidBase == (MaxTime + 2) * Cardinality(RandDraws)
fallbackId(t, r) == t * Cardinality(RandDraws) + r
newId(useUUID, n, t, r) == IF useUUID THEN UuidBase + n ELSE fallbackId(t, r)

\* what a store operation leaves behind: the error thrown ("none" when it
\* returns), the entry, the table and the value returned
Outcome(err, entry, tbl, ret) == [err |-> err, store |-> entry, table |-> tbl, ret |-> ret]

\* addRecord with list.unshift in place of list.push
addRecordUnshift(entry, tbl, f, hash, id, t, writeOk) ==
    LET list == loadRecords(entry)
    IN  IF ~isArray(list) THEN Outcome("TypeError", entry, tbl, -1)
        ELSE
          LET pushed == Arr(<<Record(id, f, hash, t)>> \o list.recs)
              saved == saveRecords(entry, pushed, writeOk)
          IN  IF saved.err # "none" THEN Outcome(saved.err, saved.store, tbl, -1)
              ELSE LET r == renderRecords(saved.store, tbl)
                   IN  Outcome(r.err, saved.store, r.table, id)

\* addRecord that also stamps every stored record with the current time
addRecordRestamp(entry, tbl, f, hash, id, t, writeOk) ==
    LET list == loadRecords(entry)
    IN  IF ~isArray(list) THEN Outcome("TypeError", entry, tbl, -1)
        ELSE
          LET stamped == [i \in 1..Len(list.recs) |-> [list.recs[i] EXCEPT !.savedAt = t]]
              pushed == Arr(Append(stamped, Record(id, f, hash, t)))
              saved == saveRecords(entry, pushed, writeOk)
          IN  IF saved.err # "none" THEN Outcome(saved.err, saved.store, tbl, -1)
              ELSE LET r == renderRecords(saved.store, tbl)
                   IN  Outcome(r.err, saved.store, r.table, id)

\* addRecord that saves a list holding only the new record
addRecordAlone(entry, tbl, f, hash, id, t, writeOk) ==
    LET list == loadRecords(entry)
    IN  IF ~isArray(list) THEN Outcome("TypeError", entry, tbl, -1)
        ELSE
          LET pushed == Arr(<<Record(id, f, hash, t)>>)
              saved == saveRecords(entry, pushed, writeOk)
          IN  IF saved.err # "none" THEN Outcome(saved.err, saved.store, tbl, -1)
              ELSE LET r == renderRecords(saved.store, tbl)
                   IN  Outcome(r.err, saved.store, r.table, id)

addRecord(entry, tbl, f, hash, id, t, writeOk) ==
    LET list == loadRecords(entry)
    IN  IF ~isArray(list) THEN Outcome("TypeError", entry, tbl, -1)   \* list.push
        ELSE
          LET pushed == Arr(Append(list.recs, Record(id, f, hash, t)))
              saved == saveRecords(entry, pushed, writeOk)
          IN  IF saved.err # "none" THEN Outcome(saved.err, saved.store, tbl, -1)
              ELSE LET r == renderRecords(saved.store, tbl)
                   IN  Outcome(r.err, saved.store, r.table, id)

RECURSIVE filterOutFirst(_, _)
\* a filter that stops at the first record with the id and drops the rest
filterOutFirst(recs, id) ==
    IF recs = <<>> THEN <<>>
    ELSE IF Head(recs).id # id THEN <<Head(recs)>> \o filterOutFirst(Tail(recs), id)
    ELSE <<>>

RECURSIVE filterOut(_, _)
filterOut(recs, id) ==
    IF recs = <<>> THEN <<>>
    ELSE IF Head(recs).id # id THEN <<Head(recs)>> \o filterOut(Tail(recs), id)
    ELSE filterOut(Tail(recs), id)

\* deleteRecord without its renderRecords() call
deleteRecordNoRender(entry, tbl, id, writeOk) ==
    LET list == loadRecords(entry)
    IN  IF ~isArray(list) THEN Outcome("TypeError", entry, tbl, -1)
        ELSE
          LET saved == saveRecords(entry, Arr(filterOut(list.recs, id)), writeOk)
          IN  Outcome(saved.err, saved.store, tbl, -1)

deleteRecord(entry, tbl, id, writeOk) ==
    LET list == loadRecords(entry)
    IN  IF ~isArray(list) THEN Outcome("TypeError", entry, tbl, -1)   \* list.filter
        ELSE
          LET saved == saveRecords(entry, Arr(filterOut(list.recs, id)), writeOk)
          IN  IF saved.err # "none" THEN Outcome(saved.err, saved.store, tbl, -1)
              ELSE LET r == renderRecords(saved.store, tbl)
                   IN  Outcome(r.err, saved.store, r.table, -1)

\* clearAllRecords that re-renders without removing the entry
clearAllRecordsKeeps(entry, tbl) ==
    LET r == renderRecords(entry, tbl)
    IN  Outcome(r.err, entry, r.table, -1)

clearAllRecords(entry, tbl) ==
    LET r == renderRecords(Absent, tbl)      \* localStorage.removeItem(STORE_KEY)
    IN  Outcome(r.err, Absent, r.table, -1)

----------------------------------------------------------------------------
(* Status messages (show) and the verification decision *)

Msg(kind, hash, items) == [kind |-> kind, hash |-> hash, items |-> items]

Failed(e) == Msg("bad", <<>>, <<[err |-> e]>>)      \* `Failed to hash file. ${e}`

RECURSIVE findLastByHash(_, _)
\* the last record with the hash instead of the first
findLastByHash(recs, h) ==
    IF recs = <<>> THEN <<>>
    ELSE IF recs[Len(recs)].hash = h THEN <<recs[Len(recs)]>>
    ELSE findLastByHash(SubSeq(recs, 1, Len(recs) - 1), h)

RECURSIVE findByHash(_, _)
\* list.find(r => r.hash === h): <<>> for undefined, else <<the first such record>>
findByHash(recs, h) ==
    IF recs = <<>> THEN <<>>
    ELSE IF Head(recs).hash = h THEN <<Head(recs)>>
    ELSE findByHash(Tail(recs), h)

RECURSIVE findById(_, _)
\* list.find(r => r.id === id)
findById(recs, id) ==
    IF recs = <<>> THEN <<>>
    ELSE IF Head(recs).id = id THEN <<Head(recs)>>
    ELSE findById(Tail(recs), id)

\* a name filter that lets every record through
filterByNameAll(recs, name) == recs

RECURSIVE filterByName(_, _)
\* list.filter(r => r.name === name)
filterByName(recs, name) ==
    IF recs = <<>> THEN <<>>
    ELSE IF Head(recs).name = name THEN <<Head(recs)>> \o filterByName(Tail(recs), name)
    ELSE filterByName(Tail(recs), name)

\* the lines `• ${r.name} — ${r.hash}` of the same-name hint
hintLines(recs) == [i \in 1..Len(recs) |-> [name |-> recs[i].name, hash |-> recs[i].hash]]

\* verifyOutcome whose match also asks for the file's size
verifyOutcomeBySize(entry, f, currentHash) ==
    LET list == loadRecords(entry)
        len == lengthOf(list)
    IN  IF len.err # "none" THEN Failed(len.err)
        ELSE IF ~len.truthy THEN Msg("nobaselines", currentHash, <<>>)
        ELSE IF ~isArray(list) THEN Failed("TypeError")
        ELSE
          LET match == findByHash(SelectSeq(list.recs, LAMBDA r : r.size = f.size),
                                  currentHash)
              sameName == filterByName(list.recs, f.name)
          IN  IF match # <<>>
                THEN Msg("match", currentHash,
                         <<[name |-> match[1].name, savedAt |-> match[1].savedAt]>>)
              ELSE IF sameName # <<>>
                THEN Msg("samename", currentHash, hintLines(sameName))
              ELSE Msg("nomatch", currentHash, <<>>)

\* verifyOutcome without the `if (!list.length)` branch
verifyOutcomeNoEmptyCheck(entry, f, currentHash) ==
    LET list == loadRecords(entry)
    IN  IF ~isArray(list) THEN Failed("TypeError")
        ELSE
          LET match == findByHash(list.recs, currentHash)
              sameName == filterByName(list.recs, f.name)
          IN  IF match # <<>>
                THEN Msg("match", currentHash,
                         <<[name |-> match[1].name, savedAt |-> match[1].savedAt]>>)
              ELSE IF sameName # <<>>
                THEN Msg("samename", currentHash, hintLines(sameName))
              ELSE Msg("nomatch", currentHash, <<>>)

\* the body of btnVerify's try block once the hash is known
verifyOutcome(entry, f, currentHash) ==
    LET list == loadRecords(entry)
        len == lengthOf(list)
    IN  IF len.err # "none" THEN Failed(len.err)
        ELSE IF ~len.truthy THEN Msg("nobaselines", currentHash, <<>>)
        ELSE IF ~isArray(list) THEN Failed("TypeError")        \* list.find
        ELSE
          LET match == findByHash(list.recs, currentHash)
              sameName == filterByName(list.recs, f.name)
          IN  IF match # <<>>
                THEN Msg("match", currentHash,
                         <<[name |-> match[1].name, savedAt |-> match[1].savedAt]>>)
              ELSE IF sameName # <<>>
                THEN Msg("samename", currentHash, hintLines(sameName))
              ELSE Msg("nomatch", currentHash, <<>>)

\* the body of the quick-verify try block once the hash is known
quickOutcome(rec, h) ==
    IF h = rec.hash
      THEN Msg("qmatch", h, <<[name |-> rec.name, savedAt |-> rec.savedAt]>>)
    ELSE Msg("qmismatch", h, <<[name |-> rec.name, hash |-> rec.hash]>>)

----------------------------------------------------------------------------
(* Handlers in flight and the record of the last step *)

Op(kind, f, id, rec) == [kind |-> kind, file |-> f, id |-> id, rec |-> rec]

InFlight == BagCardinality(pending)
Registers == {o \in BagToSet(pending) : o.kind = "register"}
RegistersInFlight ==
    IF Registers = {} THEN 0
    ELSE BagCardinality([o \in Registers |-> pending[o]])

Suspend(op) == pending (+) SetToBag({op})
Resume(op) == pending (-) SetToBag({op})

\* the last call that reached the store: its name, the id it took or made,
\* the error it threw ("none" when it returned) and the value it returned
Last(op, id, err, ret) == [op |-> op, id |-> id, err |-> err, ret |-> ret]

Records == loadRecords(store).recs

Ids(recs) == {recs[i].id : i \in 1..Len(recs)}

----------------------------------------------------------------------------
(* Initial state: the entry left by earlier sessions, then the script's    *)
(* top-level renderRecords()                                               *)

OldRecord == Record(-2, FileB0, digestOf[FileB0], -1)

\* entries this program writes
WellFormedEntries == {Absent, Entry("array", <<OldRecord>>)}

\* entries that are no JSON array of records
CorruptEntries ==
    {Entry("empty", <<>>), Entry("garbage", <<>>), Entry("null", <<>>),
     Entry("object", <<>>), Entry("string", <<>>)}

Start(entries, uuid) ==
    /\ store \in entries
    /\ hasUUID \in uuid
    /\ LET r == renderRecords(store, Unrendered)
       IN  /\ table = r.table
           /\ last = Last("load", -1, r.err, -1)
    /\ regResult = Msg("init", <<>>, <<>>)
    /\ verResult = Msg("init", <<>>, <<>>)
    /\ pending = EmptyBag
    /\ now = 0
    /\ uuidNext = 0

Init == Start(WellFormedEntries, {TRUE})

----------------------------------------------------------------------------
(* A) Register *)

ClickHashSave(f) ==
    /\ IF f = NoFile
         THEN /\ regResult' = Msg("warn", <<>>, <<>>)
              /\ pending' = pending
         ELSE /\ InFlight < MaxPending
              /\ Len(Records) + RegistersInFlight < MaxRecords
              /\ hasUUID => uuidNext + RegistersInFlight < MaxRecords
              /\ regResult' = Msg("hashing", <<>>, <<>>)
              /\ pending' = Suspend(Op("register", f, -1, <<>>))
    /\ UNCHANGED <<store, table, verResult, now, uuidNext, hasUUID, last>>

\* the call addRecord({name, size, lastModified, hash}) and what it leaves
AddCall(f, hash, writeOk, rnd) ==
    LET id == newId(hasUUID, uuidNext, now, rnd)
        out == addRecord(store, table, f, hash, id, now, writeOk)
    IN  /\ store' = out.store
        /\ table' = out.table
        /\ uuidNext' = IF hasUUID THEN uuidNext + 1 ELSE uuidNext
        /\ last' = Last("add", id, out.err, out.ret)

\* a register handler that saves the record before the hash is known to be good
RegisterDoneEager(op, hashOk, writeOk, rnd) ==
    /\ BagIn(op, pending)
    /\ op.kind = "register"
    /\ pending' = Resume(op)
    /\ AddCall(op.file, IF hashOk THEN digestOf[op.file] ELSE <<>>, writeOk, rnd)
    /\ regResult' =
         IF ~hashOk THEN Failed("NotReadableError")
         ELSE IF last'.err # "none" THEN Failed(last'.err)
         ELSE Msg("ok", digestOf[op.file], <<[name |-> op.file.name, size |-> op.file.size]>>)
    /\ UNCHANGED <<verResult, now, hasUUID>>

\* the handler resumes after `await sha256OfFile(f)`: hashOk = FALSE is the
\* promise rejecting (unreadable file or digest failure), rnd the Math.random() draw
RegisterDone(op, hashOk, writeOk, rnd) ==
    /\ BagIn(op, pending)
    /\ op.kind = "register"
    /\ pending' = Resume(op)
    /\ IF ~hashOk
         THEN /\ regResult' = Failed("NotReadableError")
              /\ UNCHANGED <<store, table, uuidNext, last>>
         ELSE /\ AddCall(op.file, digestOf[op.file], writeOk, rnd)
              /\ regResult' =
                   IF last'.err # "none" THEN Failed(last'.err)
                   ELSE Msg("ok", digestOf[op.file],
                            <<[name |-> op.file.name, size |-> op.file.size]>>)
    /\ UNCHANGED <<verResult, now, hasUUID>>

ClickClearReg ==
    /\ regResult' = Msg("cleared", <<>>, <<>>)
    /\ UNCHANGED <<store, table, verResult, pending, now, uuidNext, hasUUID, last>>

----------------------------------------------------------------------------
(* B) Verify *)

ClickVerify(f) ==
    /\ IF f = NoFile
         THEN /\ verResult' = Msg("warn", <<>>, <<>>)
              /\ pending' = pending
         ELSE /\ InFlight < MaxPending
              /\ verResult' = Msg("computing", <<>>, <<>>)
              /\ pending' = Suspend(Op("verify", f, -1, <<>>))
    /\ UNCHANGED <<store, table, regResult, now, uuidNext, hasUUID, last>>

\* a verify that decides against the list as it was when the page loaded
VerifyDoneAtLoad(op, hashOk) ==
    /\ BagIn(op, pending)
    /\ op.kind = "verify"
    /\ pending' = Resume(op)
    /\ verResult' = IF hashOk
                      THEN verifyOutcome(Entry("array", <<OldRecord>>), op.file, digestOf[op.file])
                    ELSE Failed("NotReadableError")
    /\ UNCHANGED <<store, table, regResult, now, uuidNext, hasUUID, last>>

VerifyDone(op, hashOk) ==
    /\ BagIn(op, pending)
    /\ op.kind = "verify"
    /\ pending' = Resume(op)
    /\ verResult' = IF hashOk THEN verifyOutcome(store, op.file, digestOf[op.file])
                    ELSE Failed("NotReadableError")
    /\ UNCHANGED <<store, table, regResult, now, uuidNext, hasUUID, last>>

ClickClearVer ==
    /\ verResult' = Msg("cleared", <<>>, <<>>)
    /\ UNCHANGED <<store, table, regResult, pending, now, uuidNext, hasUUID, last>>

----------------------------------------------------------------------------
(* C) Table actions: delete and quick-verify *)

\* the data-id attributes of the buttons the table shows
RowIds == {table.rows[i].id : i \in 1..Len(table.rows)}

\* a click on the digest of a row: copyText puts it on the clipboard and the
\* span's title changes for 900 ms; nothing of the page's state changes
ClickCopy(id) ==
    /\ id \in RowIds
    /\ UNCHANGED vars

\* the call deleteRecord(id) and what it leaves
DeleteCall(id, writeOk) ==
    LET out == deleteRecord(store, table, id, writeOk)
    IN  /\ store' = out.store
        /\ table' = out.table
        /\ last' = Last("remove", id, out.err, -1)

ClickDelete(id, confirmed, writeOk) ==
    /\ id \in RowIds
    /\ IF confirmed THEN DeleteCall(id, writeOk)
       ELSE UNCHANGED <<store, table, last>>
    /\ UNCHANGED <<regResult, verResult, pending, now, uuidNext, hasUUID>>

\* the click creates a file input and opens its picker
ClickQuickVerify(id) ==
    /\ id \in RowIds
    /\ InFlight < MaxPending
    /\ pending' = Suspend(Op("picker", NoFile, id, <<>>))
    /\ UNCHANGED <<store, table, regResult, verResult, now, uuidNext, hasUUID, last>>

\* the picker is dismissed: no change event is delivered
PickerCancel(op) ==
    /\ BagIn(op, pending)
    /\ op.kind = "picker"
    /\ pending' = Resume(op)
    /\ UNCHANGED <<store, table, regResult, verResult, now, uuidNext, hasUUID, last>>

\* the change listener of the picker, up to `await sha256OfFile(f)`; a store
\* that is no array makes list.find throw out of the listener
QuickChange(op, f) ==
    /\ BagIn(op, pending)
    /\ op.kind = "picker"
    /\ LET list == loadRecords(store)
           rec == IF isArray(list) THEN findById(list.recs, op.id) ELSE <<>>
       IN  IF f = NoFile \/ rec = <<>>
             THEN /\ pending' = Resume(op)
                  /\ verResult' = verResult
             ELSE /\ pending' = Resume(op) (+) SetToBag({Op("quick", f, op.id, rec)})
                  /\ verResult' = Msg("qcomputing", <<>>, <<>>)
    /\ UNCHANGED <<store, table, regResult, now, uuidNext, hasUUID, last>>

\* a quick-verify that scans the whole store as btnVerify does
QuickDoneScan(op, hashOk) ==
    /\ BagIn(op, pending)
    /\ op.kind = "quick"
    /\ pending' = Resume(op)
    /\ verResult' =
         IF ~hashOk THEN Failed("NotReadableError")
         ELSE IF findByHash(Records, digestOf[op.file]) # <<>>
           THEN quickOutcome([op.rec[1] EXCEPT !.hash = digestOf[op.file]], digestOf[op.file])
         ELSE quickOutcome(op.rec[1], digestOf[op.file])
    /\ UNCHANGED <<store, table, regResult, now, uuidNext, hasUUID, last>>

\* a quick-verify that looks its record up again once the hash is known
QuickDoneLookup(op, hashOk) ==
    /\ BagIn(op, pending)
    /\ op.kind = "quick"
    /\ pending' = Resume(op)
    /\ LET rec == findById(Records, op.id)
       IN  verResult' = IF ~hashOk THEN Failed("NotReadableError")
                        ELSE IF rec = <<>> THEN verResult
                        ELSE quickOutcome(rec[1], digestOf[op.file])
    /\ UNCHANGED <<store, table, regResult, now, uuidNext, hasUUID, last>>

QuickDone(op, hashOk) ==
    /\ BagIn(op, pending)
    /\ op.kind = "quick"
    /\ pending' = Resume(op)
    /\ verResult' = IF hashOk THEN quickOutcome(op.rec[1], digestOf[op.file])
                    ELSE Failed("NotReadableError")
    /\ UNCHANGED <<store, table, regResult, now, uuidNext, hasUUID, last>>

----------------------------------------------------------------------------
(* D) Export and delete all *)

\* JSON.stringify(loadRecords(), null, 2) is handed to the browser as a
\* download; nothing of the page's state changes
ClickExport ==
    UNCHANGED vars

\* the call clearAllRecords() and what it leaves
ClearCall ==
    LET out == clearAllRecords(store, table)
    IN  /\ store' = out.store
        /\ table' = out.table
        /\ last' = Last("clear", -1, out.err, -1)

ClickClearAll(confirmed) ==
    /\ IF confirmed THEN ClearCall
       ELSE UNCHANGED <<store, table, last>>
    /\ UNCHANGED <<regResult, verResult, pending, now, uuidNext, hasUUID>>

\* a millisecond passes
Tick ==
    /\ now < MaxTime
    /\ now' = now + 1
    /\ UNCHANGED <<store, table, regResult, verResult, pending, uuidNext, hasUUID, last>>

----------------------------------------------------------------------------------------------------------------------------------------
(* Specifications.                                                         *)
(* Spec interleaves the register, verify, quick-verify, delete, clear and  *)
(* export flows in a browser that has crypto.randomUUID, each file widget  *)
(* holding one file; SpecCorrupt is Spec started from an entry that is no  *)
(* array of records.  SpecRegister runs the register flow over every file  *)
(* and no file, with either id generator and the clock moving; SpecVerify  *)
(* runs the verify flow over every file and no file.  SpecStore calls      *)
(* addRecord, deleteRecord and clearAllRecords with every argument on      *)
(* every small store.                                                      *)

Picked == Files \cup {NoFile}
InFlightOps == BagToSet(pending)

\* the draws that matter: randomUUID does not call Math.random()
Draws == IF hasUUID THEN {0} ELSE RandDraws

Next ==
    \/ ClickHashSave(FileA1)
    \/ \E op \in InFlightOps, writeOk \in BOOLEAN : RegisterDone(op, TRUE, writeOk, 0)
    \/ \E op \in InFlightOps : RegisterDone(op, FALSE, TRUE, 0)
    \/ ClickVerify(FileA0)
    \/ \E op \in InFlightOps, hashOk \in BOOLEAN : VerifyDone(op, hashOk)
    \/ \E id \in RowIds, writeOk \in BOOLEAN : ClickDelete(id, TRUE, writeOk)
    \/ \E id \in RowIds : ClickDelete(id, FALSE, TRUE)
    \/ \E id \in RowIds : ClickQuickVerify(id)
    \/ \E op \in InFlightOps : PickerCancel(op)
    \/ \E op \in InFlightOps, f \in {FileB0, NoFile} : QuickChange(op, f)
    \/ \E op \in InFlightOps, hashOk \in BOOLEAN : QuickDone(op, hashOk)
    \/ ClickExport
    \/ \E confirmed \in BOOLEAN : ClickClearAll(confirmed)

Spec == Init /\ [][Next]_vars

InitCorrupt == Start(CorruptEntries, {TRUE})

SpecCorrupt == InitCorrupt /\ [][Next]_vars

InitRegister == Start(WellFormedEntries, BOOLEAN)

NextRegister ==
    \/ \E f \in Picked : ClickHashSave(f)
    \/ \E op \in InFlightOps, writeOk \in BOOLEAN, rnd \in Draws :
          RegisterDone(op, TRUE, writeOk, rnd)
    \/ \E op \in InFlightOps : RegisterDone(op, FALSE, TRUE, 0)
    \/ ClickClearReg
    \/ \E id \in RowIds, writeOk \in BOOLEAN : ClickDelete(id, TRUE, writeOk)
    \/ \E id \in RowIds : ClickDelete(id, FALSE, TRUE)
    \/ ClickExport
    \/ \E confirmed \in BOOLEAN : ClickClearAll(confirmed)
    \/ Tick

SpecRegister == InitRegister /\ [][NextRegister]_vars

NextVerify ==
    \/ \E f \in Files : ClickHashSave(f)
    \/ \E op \in InFlightOps, hashOk \in BOOLEAN : RegisterDone(op, hashOk, TRUE, 0)
    \/ \E f \in Picked : ClickVerify(f)
    \/ \E op \in InFlightOps, hashOk \in BOOLEAN : VerifyDone(op, hashOk)
    \/ ClickClearVer
    \/ \E id \in RowIds : ClickDelete(id, TRUE, TRUE)
    \/ ClickClearAll(TRUE)

SpecVerify == Init /\ [][NextVerify]_vars

\* stores of up to two earlier records with distinct ids
OldIds == {-2, -3}
OldRecords == {Record(id, f, digestOf[f], -1) : id \in OldIds, f \in Files}
SmallStores ==
    {Absent, Entry("array", <<>>)}
      \cup {Entry("array", <<r>>) : r \in OldRecords}
      \cup {Entry("array", <<r, q>>) : r \in {x \in OldRecords : x.id = -2},
                                       q \in {x \in OldRecords : x.id = -3}}
      \cup {Entry("array", <<q, r>>) : r \in {x \in OldRecords : x.id = -2},
                                       q \in {x \in OldRecords : x.id = -3}}

\* ids a caller can pass: those of earlier records and one no record has
CallIds == OldIds \cup {-4}

InitStore == Start(SmallStores, {TRUE})

StoreAdd(f, writeOk) ==
    /\ Len(Records) < MaxRecords
    /\ uuidNext < MaxRecords
    /\ AddCall(f, digestOf[f], writeOk, 0)
    /\ UNCHANGED <<regResult, verResult, pending, now, hasUUID>>

StoreRemove(id, writeOk) ==
    /\ DeleteCall(id, writeOk)
    /\ UNCHANGED <<regResult, verResult, pending, now, uuidNext, hasUUID>>

StoreClear ==
    /\ ClearCall
    /\ UNCHANGED <<regResult, verResult, pending, now, uuidNext, hasUUID>>

NextStore ==
    \/ \E f \in Files, writeOk \in BOOLEAN : StoreAdd(f, writeOk)
    \/ \E id \in CallIds, writeOk \in BOOLEAN : StoreRemove(id, writeOk)
    \/ StoreClear

SpecStore == InitStore /\ [][NextStore]_vars

\* the quick-verify flow on every small store, with every file
NextQuick ==
    \/ \E id \in RowIds : ClickQuickVerify(id)
    \/ \E op \in InFlightOps : PickerCancel(op)
    \/ \E op \in InFlightOps, f \in Picked : QuickChange(op, f)
    \/ \E op \in InFlightOps, hashOk \in BOOLEAN : QuickDone(op, hashOk)
    \/ \E id \in RowIds : ClickDelete(id, TRUE, TRUE)
    \/ ClickClearAll(TRUE)

SpecQuick == InitStore /\ [][NextQuick]_vars

\* the commands that only read: verify with every file, quick-verify, copy,
\* export and the two clear-selection buttons, on every small store
NextFrame ==
    \/ \E f \in Picked \cup {FileA2} : ClickVerify(f)
    \/ \E op \in InFlightOps, hashOk \in BOOLEAN : VerifyDone(op, hashOk)
    \/ ClickClearVer
    \/ ClickClearReg
    \/ \E id \in RowIds : ClickQuickVerify(id)
    \/ \E op \in InFlightOps : PickerCancel(op)
    \/ \E op \in InFlightOps, f \in {FileA1, NoFile} : QuickChange(op, f)
    \/ \E op \in InFlightOps, hashOk \in BOOLEAN : QuickDone(op, hashOk)
    \/ \E id \in RowIds : ClickCopy(id)
    \/ ClickExport

SpecFrame == InitStore /\ [][NextFrame]_vars

\* changes of the store while hashes are in flight: the page loads with one
\* baseline, every click and file selection falls in the first millisecond,
\* as do deletes and clears, and every hash settles in a later one
InitRace == Start({Entry("array", <<OldRecord>>)}, {TRUE})

NextRace ==
    \/ now = 0 /\ ClickHashSave(FileA1)
    \/ now = 0 /\ \E f \in {FileA1, FileB0} : ClickVerify(f)
    \/ now = 0 /\ \E id \in RowIds : ClickQuickVerify(id)
    \/ now = 0 /\ \E op \in InFlightOps, f \in {FileA1, FileB0} : QuickChange(op, f)
    \/ now = 0 /\ \E id \in RowIds : ClickDelete(id, TRUE, TRUE)
    \/ now = 0 /\ ClickClearAll(TRUE)
    \/ Tick
    \/ now > 0 /\ \E op \in InFlightOps : RegisterDone(op, TRUE, TRUE, 0)
    \/ now > 0 /\ \E op \in InFlightOps : VerifyDone(op, TRUE)
    \/ now > 0 /\ \E op \in InFlightOps : QuickDone(op, TRUE)

SpecRace == InitRace /\ [][NextRace]_vars

----------------------------------------------------------------------------
(* Claims *)

After == loadRecords(store').recs

\* C1: a successful add leaves the previous records unchanged and in order,
\* appends exactly one record carrying the supplied name, size, lastModified
\* and digest, and returns that record's id.
C1_AddAppendsOne ==
    [][\A op \in InFlightOps, w \in BOOLEAN, rnd \in RandDraws :
         (RegisterDone(op, TRUE, w, rnd) /\ last'.err = "none")
         => /\ Len(After) = Len(Records) + 1
            /\ SubSeq(After, 1, Len(Records)) = Records
            /\ After[Len(After)].name = op.file.name
            /\ After[Len(After)].size = op.file.size
            /\ After[Len(After)].lastModified = op.file.lastModified
            /\ After[Len(After)].hash = sha256OfFile(op.file)
            /\ last'.ret = After[Len(After)].id]_vars

C1_Witness ==
    /\ last.op = "add"
    /\ last.err = "none"
    /\ Len(Records) >= 2
    /\ Records[Len(Records)].id = last.ret
    /\ regResult.kind = "ok"

\* C2: after deleteRecord(id) returns, no record has that id and every other
\* record is kept in its order; when no record has the id the list is what it
\* was, and the call throws only if the storage medium refuses the write.
C2_RemoveOnlyThatId ==
    [][\A id \in CallIds, w \in BOOLEAN :
         StoreRemove(id, w)
         => /\ w => last'.err = "none"
            /\ last'.err = "none"
                 => /\ id \notin Ids(After)
                    /\ After = SelectSeq(Records, LAMBDA r : r.id # id)
            /\ id \notin Ids(Records) => After = Records]_vars

C2_Witness ==
    /\ last.op = "remove"
    /\ last.err = "none"
    /\ last.id \notin Ids(Records)
    /\ Len(Records) >= 1

\* C3: clearAllRecords leaves the empty list, and an empty store stays empty
\* until an add succeeds.
C3_ClearEmpties ==
    [][/\ ClickClearAll(TRUE) => loadRecords(store') = Arr(<<>>)
       /\ (Records = <<>> /\ After # <<>>)
            => /\ last'.op = "add"
               /\ last'.err = "none"
               /\ \E op \in InFlightOps, w \in BOOLEAN, rnd \in RandDraws :
                     RegisterDone(op, TRUE, w, rnd)]_vars

C3_Witness ==
    /\ last.op = "clear"
    /\ Records = <<>>
    /\ table = Placeholder
    /\ \E op \in InFlightOps : op.kind = "register"

HasDigest(recs, h) == \E i \in 1..Len(recs) : recs[i].hash = h

FirstWithDigest(recs, h) ==
    CHOOSE i \in 1..Len(recs) :
        recs[i].hash = h /\ \A j \in 1..(i - 1) : recs[j].hash # h

\* C4: a verify whose digest equals some stored digest reports MATCH, whatever
\* the file is called, with the first such record in stored order.
C4_MatchFirstInOrder ==
    [][\A op \in InFlightOps :
         (VerifyDone(op, TRUE) /\ HasDigest(Records, sha256OfFile(op.file)))
         => LET r == Records[FirstWithDigest(Records, sha256OfFile(op.file))]
            IN  verResult' = Msg("match", sha256OfFile(op.file),
                                 <<[name |-> r.name, savedAt |-> r.savedAt]>>)]_vars

C4_Witness ==
    /\ verResult.kind = "match"
    /\ \E i, j \in 1..Len(Records) :
          /\ i < j
          /\ Records[i].hash = verResult.hash
          /\ Records[j].hash = verResult.hash
          /\ Records[i].name # Records[j].name
          /\ verResult.items[1].name = Records[i].name
          /\ verResult.items[1].savedAt = Records[i].savedAt

\* C5: with a digest computed, verify reports exactly one of no-baselines,
\* MATCH, NO-MATCH-BUT-SAME-NAME and NO-MATCH; without a digest match it lists
\* exactly the records of the file's name, in stored order, or nothing.
C5_NameHintExact ==
    [][\A op \in InFlightOps :
         VerifyDone(op, TRUE)
         => LET hit == HasDigest(Records, sha256OfFile(op.file))
                same == SelectSeq(Records, LAMBDA r : r.name = op.file.name)
                kind == verResult'.kind
            IN  /\ kind \in {"nobaselines", "match", "samename", "nomatch"}
                /\ kind = "nobaselines" <=> Records = <<>>
                /\ kind = "match" <=> (Records # <<>> /\ hit)
                /\ kind = "samename" <=> (Records # <<>> /\ ~hit /\ same # <<>>)
                /\ kind = "nomatch" <=> (Records # <<>> /\ ~hit /\ same = <<>>)
                /\ kind = "samename"
                     => verResult'.items =
                          [i \in 1..Len(same) |-> [name |-> same[i].name, hash |-> same[i].hash]]
                /\ kind = "nomatch" => verResult'.items = <<>>]_vars

C5_Witness ==
    /\ verResult.kind = "samename"
    /\ Len(verResult.items) >= 1
    /\ Len(Records) > Len(verResult.items)
    /\ \A i \in 1..Len(Records) : Records[i].hash # verResult.hash

\* C6: a verify that computes its digest against an empty store reports
\* no-baselines with that digest and nothing else.
C6_EmptyStoreNoBaselines ==
    [][\A op \in InFlightOps :
         (VerifyDone(op, TRUE) /\ Records = <<>>)
         => verResult' = Msg("nobaselines", sha256OfFile(op.file), <<>>)]_vars

C6_Witness ==
    /\ verResult.kind = "nobaselines"
    /\ Len(verResult.hash) = 2 * DigestBytes
    /\ Records = <<>>
    /\ last.op \in {"remove", "clear"}

\* C7: an entry that is absent or no JSON array of records loads as the empty
\* list, and no reading step throws because of it.
C7_CorruptLoadsEmpty ==
    /\ store.kind # "array" => loadRecords(store) = Arr(<<>>)
    /\ last.err # "TypeError"
    /\ regResult # Failed("TypeError")
    /\ verResult # Failed("TypeError")

\* C8: no two records of the store have the same id.
C8_UniqueIds ==
    \A i, j \in 1..Len(Records) : i # j => Records[i].id # Records[j].id

\* C9: every step leaves each stored record as it was: the list after a step
\* is the list before it, or that list without the records of one id, or
\* empty, or that list with one record appended; verify, quick-verify and
\* export leave the entry alone.
C9_RecordsImmutable ==
    [][/\ \/ After = Records
          \/ After = <<>>
          \/ \E id \in Ids(Records) : After = SelectSeq(Records, LAMBDA r : r.id # id)
          \/ /\ Len(After) = Len(Records) + 1
             /\ SubSeq(After, 1, Len(Records)) = Records
             /\ After[Len(After)].savedAt = now
       /\ \A op \in InFlightOps, h \in BOOLEAN :
             (VerifyDone(op, h) \/ QuickDone(op, h)) => store' = store
       /\ ClickExport => store' = store]_vars

C9_Witness ==
    /\ last.op = "add"
    /\ last.err = "none"
    /\ Len(Records) >= 2
    /\ Records[1] = OldRecord
    /\ Records[2].savedAt > OldRecord.savedAt

\* C10: a register whose digest computation fails leaves the entry and the
\* table as they were and shows a failure; a record is appended only by a
\* register whose digest was computed, and carries that digest.
C10_FailedHashNoRecord ==
    [][/\ \A op \in InFlightOps, w \in BOOLEAN, rnd \in RandDraws :
             RegisterDone(op, FALSE, w, rnd)
             => /\ store' = store
                /\ table' = table
                /\ regResult' = Failed("NotReadableError")
       /\ Len(After) > Len(Records)
            => \E op \in InFlightOps, w \in BOOLEAN, rnd \in RandDraws :
                  /\ RegisterDone(op, TRUE, w, rnd)
                  /\ After[Len(After)].hash = sha256OfFile(op.file)
                  /\ Len(After[Len(After)].hash) = 2 * DigestBytes]_vars

C10_Witness ==
    /\ regResult = Failed("NotReadableError")
    /\ Records # <<>>
    /\ last.op = "load"

\* C11: a step in which the storage medium refuses a write (the add of a
\* register, or a confirmed delete) ends with a status element showing that
\* failure; the error does not leave the handler unshown.
C11_WriteFailureSurfaced ==
    [][/\ \A op \in InFlightOps, rnd \in RandDraws :
             RegisterDone(op, TRUE, FALSE, rnd) => regResult' = Failed(last'.err)
       /\ \A id \in RowIds :
             ClickDelete(id, TRUE, FALSE)
             => \/ regResult' = Failed(last'.err)
                \/ verResult' = Failed(last'.err)]_vars

\* C12: a quick-verify whose digest was computed reports MATCH when that
\* digest equals the digest of the record picked with the button and MISMATCH
\* otherwise, whatever else the store holds; it never reports a name hint or
\* no-baselines.  The record compared is the stored record of the button's id.
C12_QuickComparesOneRecord ==
    [][/\ \A op \in InFlightOps :
             QuickDone(op, TRUE)
             => /\ verResult'.kind \in {"qmatch", "qmismatch"}
                /\ verResult'.kind = "qmatch" <=> sha256OfFile(op.file) = op.rec[1].hash
                /\ verResult'.hash = sha256OfFile(op.file)
                /\ verResult'.items[1].name = op.rec[1].name
                /\ verResult'.kind = "qmismatch"
                     => verResult'.items[1].hash = op.rec[1].hash
       /\ \A op \in InFlightOps, f \in Files :
             QuickChange(op, f)
             => \A q \in BagToSet(pending') :
                   (q.kind = "quick" /\ ~BagIn(q, pending))
                   => /\ q.id = op.id
                      /\ \E i \in 1..Len(Records) :
                            Records[i].id = op.id /\ q.rec = <<Records[i]>>]_vars

\* a MISMATCH shown while another stored record has the file's digest
C12_Witness ==
    /\ verResult.kind = "qmismatch"
    /\ HasDigest(Records, verResult.hash)
    /\ Len(Records) = 2
    /\ \E i \in 1..Len(Records) : Records[i].hash = verResult.items[1].hash

Range(recs) == {recs[i] : i \in 1..Len(recs)}

\* C13: whatever else is in flight, an add that returns leaves every earlier
\* record in place and its own record after them, a delete that returns
\* leaves every record of another id in place, no step other than a delete
\* or a clear drops a record, and a record enters the store only as the last
\* one, by an add that returns.
C13_NoLostUpdate ==
    [][/\ \A op \in InFlightOps, w \in BOOLEAN, rnd \in RandDraws :
             (RegisterDone(op, TRUE, w, rnd) /\ last'.err = "none")
             => /\ Len(After) = Len(Records) + 1
                /\ \A i \in 1..Len(Records) : After[i] = Records[i]
                /\ After[Len(After)].id = last'.ret
       /\ \A id \in RowIds, w \in BOOLEAN :
             (ClickDelete(id, TRUE, w) /\ last'.err = "none")
             => \A r \in Range(Records) : r.id # id => r \in Range(After)
       /\ (\E r \in Range(Records) : r \notin Range(After))
             => \/ \E id \in RowIds, w \in BOOLEAN : ClickDelete(id, TRUE, w)
                \/ ClickClearAll(TRUE)
       /\ \A i \in 1..Len(After) :
             After[i] \notin Range(Records)
             => /\ i = Len(After)
                /\ last'.op = "add" /\ last'.err = "none" /\ last'.ret = After[i].id
                /\ \E op \in InFlightOps, w \in BOOLEAN, rnd \in RandDraws :
                      RegisterDone(op, TRUE, w, rnd)]_vars

\* a record added in this session is still stored after the delete of another
\* record, with a verify or quick-verify in flight
C13_Witness ==
    /\ last.op = "remove"
    /\ last.err = "none"
    /\ Len(Records) = 1
    /\ Records[1].id >= UuidBase
    /\ \E op \in InFlightOps : op.kind \in {"verify", "quick"}

\* C14: a declined confirmation leaves the entry as it was; a confirmed
\* delete that is written removes exactly one record, the one of the row, and
\* a confirmed clear removes every record.
C14_ConfirmGatesRemoval ==
    [][/\ \A id \in RowIds :
             ClickDelete(id, FALSE, TRUE) => store' = store
       /\ ClickClearAll(FALSE) => store' = store
       /\ \A id \in RowIds :
             (ClickDelete(id, TRUE, TRUE) /\ last'.err = "none")
             => /\ Len(After) = Len(Records) - 1
                /\ \E i \in 1..Len(Records) :
                      /\ Records[i].id = id
                      /\ After = SubSeq(Records, 1, i - 1)
                                   \o SubSeq(Records, i + 1, Len(Records))
       /\ ClickClearAll(TRUE) => After = <<>>]_vars

\* C15: verify, quick-verify, export, copy and the two clear-selection
\* commands leave the entry and the table as they were, and the outcome of a
\* verify is the same for every file of the same name and digest on the same
\* store, whatever the file's size and date.
C15_VerifyReadsOnly ==
    [][/\ \A f \in Picked \cup {FileA2} : ClickVerify(f) => store' = store /\ table' = table
       /\ \A op \in InFlightOps, h \in BOOLEAN :
             (VerifyDone(op, h) \/ QuickDone(op, h)) => store' = store /\ table' = table
       /\ \A op \in InFlightOps, f \in Picked :
             (QuickChange(op, f) \/ PickerCancel(op)) => store' = store /\ table' = table
       /\ \A id \in RowIds :
             (ClickQuickVerify(id) \/ ClickCopy(id)) => store' = store /\ table' = table
       /\ (ClickExport \/ ClickClearReg \/ ClickClearVer) => store' = store /\ table' = table
       /\ \A op \in InFlightOps :
             VerifyDone(op, TRUE)
             => \A g \in Files \cup {FileA2} :
                   (g.name = op.file.name /\ sha256OfFile(g) = sha256OfFile(op.file))
                   => verResult' = verifyOutcome(store, g, sha256OfFile(g))]_vars

\* a verify has matched and a selection was cleared over a store that
\* holds two records still
C15_Witness ==
    /\ verResult.kind = "match"
    /\ regResult.kind = "cleared"
    /\ Len(Records) = 2
    /\ \E i \in 1..2 : Records[i].name = NameA /\ Records[i].hash = verResult.hash
    /\ \E op \in InFlightOps : op.kind = "verify" /\ op.file = FileA2

LowerHex == {"0","1","2","3","4","5","6","7","8","9","a","b","c","d","e","f"}

\* toHex writes each byte as its two hexadecimal digits, and a digest as two
\* characters per byte
TwoDigitsPerByte ==
    /\ \A b \in 0..255 :
          toHex(<<b>>) = <<HexDigits[(b \div 16) + 1], HexDigits[(b % 16) + 1]>>
    /\ \A f \in Files : Len(sha256OfFile(f)) = 2 * Len(subtleDigest(f.content))

\* C16: every stored record's digest is 64 characters long, each of them a
\* lowercase hexadecimal digit; toHex writes every byte as its two digits,
\* high digit first, zero included.
C16_DigestsAre64Hex ==
    /\ \A i \in 1..Len(Records) :
          /\ Len(Records[i].hash) = 64
          /\ \A k \in 1..Len(Records[i].hash) : Records[i].hash[k] \in LowerHex
    /\ TwoDigitsPerByte

\* a record added in this session whose digest starts with a padded byte
C16_Witness ==
    /\ last.op = "add"
    /\ last.err = "none"
    /\ \E i \in 1..Len(Records) :
          /\ Records[i].id = last.ret
          /\ Records[i].savedAt = now
          /\ Records[i].hash[1] = "0"
          /\ Records[i].hash[2] # "0"

InFlightOf(kind) ==
    LET ops == {o \in BagToSet(pending) : o.kind = kind}
    IN  IF ops = {} THEN 0 ELSE BagCardinality([o \in ops |-> pending[o]])

\* C17: at most one register handler and at most one verify handler is
\* suspended at its digest computation at any time.
C17_OneHashPerWidget ==
    /\ InFlightOf("register") <= 1
    /\ InFlightOf("verify") <= 1

\* C18: a verify whose digest was computed decides against the records stored
\* when it resumes: no-baselines when none is stored by then, MATCH exactly
\* when one of them has the digest (naming such a record), and otherwise the
\* hint lists the records of the file's name stored by then.
C18_VerifyReadsAtCompletion ==
    [][\A op \in InFlightOps :
         VerifyDone(op, TRUE)
         => LET d == sha256OfFile(op.file)
                same == SelectSeq(Records, LAMBDA r : r.name = op.file.name)
            IN  /\ Records = <<>> => verResult'.kind = "nobaselines"
                /\ verResult'.kind = "match" <=> HasDigest(Records, d)
                /\ verResult'.kind = "match"
                     => \E r \in Range(Records) :
                           /\ r.hash = d
                           /\ verResult'.items = <<[name |-> r.name, savedAt |-> r.savedAt]>>
                /\ verResult'.kind = "samename"
                     => /\ Len(verResult'.items) = Len(same)
                        /\ \A i \in 1..Len(same) : verResult'.items[i].hash = same[i].hash
                /\ verResult'.kind = "nomatch" => (Records # <<>> /\ same = <<>>)]_vars

\* a MATCH with a record saved after the verify was clicked
C18_Witness ==
    /\ verResult.kind = "match"
    /\ verResult.items[1].savedAt > 0
    /\ verResult.hash = sha256OfFile(FileA1)

\* C19: the change listener of a quick-verify looks the record up once; when
\* no stored record has the id it shows nothing, starts no hash and leaves
\* the entry alone; otherwise the outcome shown when the hash is known is the
\* one against the record found then, also when that record has been deleted
\* or the store cleared in between.
C19_QuickUsesSnapshot ==
    [][/\ \A op \in InFlightOps, f \in Files :
             (QuickChange(op, f) /\ op.id \notin Ids(Records))
             => /\ verResult' = verResult
                /\ store' = store
                /\ table' = table
                /\ pending' = Resume(op)
       /\ \A op \in InFlightOps, f \in Files :
             (QuickChange(op, f) /\ op.id \in Ids(Records))
             => \E r \in Range(Records) :
                   /\ r.id = op.id
                   /\ BagIn(Op("quick", f, op.id, <<r>>), pending')
       /\ \A op \in InFlightOps :
             QuickDone(op, TRUE)
             => /\ store' = store
                /\ verResult'.kind =
                     IF sha256OfFile(op.file) = op.rec[1].hash THEN "qmatch" ELSE "qmismatch"
                /\ verResult'.items[1].name = op.rec[1].name]_vars

\* an outcome shown for the baseline the page loaded with, after that record
\* was removed while the hash was in flight
C19_Witness ==
    /\ verResult.kind \in {"qmatch", "qmismatch"}
    /\ verResult.items[1].name = OldRecord.name
    /\ OldRecord \notin Range(Records)
    /\ last.op \in {"remove", "clear"}

\* C20: in every state the table is the placeholder row exactly when no
\* record is stored, and otherwise has one row per stored record, in stored
\* order, row i numbered i and carrying the id, digest, save time, size and
\* escaped name of record i.
C20_TableMirrorsStore ==
    /\ table.kind \in {"placeholder", "rows"}
    /\ table.kind = "placeholder" <=> Records = <<>>
    /\ Len(table.rows) = Len(Records)
    /\ \A i \in 1..Len(Records) :
          /\ table.rows[i].n = i
          /\ table.rows[i].id = Records[i].id
          /\ table.rows[i].hash = Records[i].hash
          /\ table.rows[i].when = Records[i].savedAt
          /\ table.rows[i].sizeKb = sizeKb(Records[i].size)
          /\ table.rows[i].name = escapeHtml(Records[i].name)

\* after the delete of the first of two records the one row left is the
\* second record's, renumbered
C20_Witness ==
    /\ last.op = "remove"
    /\ last.err = "none"
    /\ Len(Records) = 1
    /\ Records[1].id >= UuidBase
    /\ table.kind = "rows"
    /\ table.rows[1].n = 1
    /\ table.rows[1].id = Records[1].id

====
